---- MODULE Spec2Model ----
(***************************************************************************)
(* Model of src/src/index.ts: PasswordAuthProvider (credential handshake   *)
(* and bundle cache) and Storefront (authenticated storefront retrieval).  *)
(*                                                                         *)
(* Time values are ECMAScript time values (milliseconds).  The Date        *)
(* setters used by the program (setMinutes, setSeconds) work on the local  *)
(* time of the process and convert back to a time value, so the time zone  *)
(* of the process is part of the state.                                    *)
(*                                                                         *)
(* Every "await" of the program is a point where other calls may run: a    *)
(* call is modelled as one action per continuation (the code between two   *)
(* awaits), the response the awaited request resolves to being the input   *)
(* of the action.                                                          *)
(***************************************************************************)
EXTENDS Integers, Sequences, FiniteSets, TLC

\* ------------------------------------------------------------------------
\* Bounds of the model
\* ------------------------------------------------------------------------
MaxCalls == 2
MaxTicks == 2

Calls == 1..MaxCalls

\* ------------------------------------------------------------------------
\* ECMAScript Date arithmetic (Date.prototype.getMinutes / setMinutes /
\* getSeconds / setSeconds), index.ts lines 72-73 and 239-248
\* ------------------------------------------------------------------------
msPerSecond == 1000
msPerMinute == 60000
msPerHour == 3600000
msPerDay == 86400000
HoursPerDay == 24
MinutesPerHour == 60
SecondsPerMinute == 60

Day(t) == t \div msPerDay
HourFromTime(t) == (t \div msPerHour) % HoursPerDay
MinFromTime(t) == (t \div msPerMinute) % MinutesPerHour
SecFromTime(t) == (t \div msPerSecond) % SecondsPerMinute
msFromTime(t) == t % msPerSecond

MakeTime(hour, min, sec, ms) ==
    hour * msPerHour + min * msPerMinute + sec * msPerSecond + ms
MakeDate(day, time) == day * msPerDay + time

\* The time zones the process may run in: offset from UTC before and after
\* the zone's transition instant "at" (a zone without transition has equal
\* offsets).  "UTC" has no daylight saving; "DST" is a zone that leaves
\* daylight saving time at 09:00 UTC of the modelled day (02:00 local time
\* becomes 01:00, as in America/Los_Angeles).
TimeZones ==
    { [name |-> "UTC", before |-> 0, after |-> 0, at |-> 0],
      [name |-> "DST", before |-> (0 - 7) * msPerHour,
                       after |-> (0 - 8) * msPerHour,
                       at |-> 9 * msPerHour] }

\* LocalTZA(t, isUTC) of ECMA-262: the offset in force at the time value t
\* (isUTC), or at local time t (~isUTC); a repeated or skipped local time is
\* interpreted with the offset before the transition.
LocalTZA(z, t, isUTC) ==
    IF isUTC
    THEN IF t >= z.at THEN z.after ELSE z.before
    ELSE IF t - z.before < z.at THEN z.before
         ELSE IF t - z.after >= z.at THEN z.after
         ELSE z.before

LocalTime(z, t) == t + LocalTZA(z, t, TRUE)
UTC(z, t) == t - LocalTZA(z, t, FALSE)

getMinutes(z, t) == MinFromTime(LocalTime(z, t))
getSeconds(z, t) == SecFromTime(LocalTime(z, t))

setMinutes(z, t, min) ==
    LET lt == LocalTime(z, t)
    IN  UTC(z, MakeDate(Day(lt),
               MakeTime(HourFromTime(lt), min, SecFromTime(lt), msFromTime(lt))))

setSeconds(z, t, sec) ==
    LET lt == LocalTime(z, t)
    IN  UTC(z, MakeDate(Day(lt),
               MakeTime(HourFromTime(lt), MinFromTime(lt), sec, msFromTime(lt))))

\* The clock at construction, and the amounts of time that may pass between
\* two steps of the program.
StartTime == 8 * msPerHour + 30 * msPerMinute
TickSteps == { 20 * msPerMinute, 60 * msPerMinute }
\* Time that may pass between two consecutive readings of the clock
\* ("new Date()") in one continuation.
ClockGaps == { 0, 1 }

\* ------------------------------------------------------------------------
\* Values
\* ------------------------------------------------------------------------
Undefined == "undefined"
\* An optional object: <<>> when unset, <<v>> when set to v.
None == << >>
Some(v) == << v >>
Get(o) == o[1]

\* Bundle validity window in minutes (index.ts line 73)
ValidityMinutes == 55

\* Messages of the errors thrown (index.ts lines 94, 110, 120, 135, 148)
ErrCookie == "Failed to retrieve authorization cookies"
ErrCredentials == "Authentication failed, check your credentials"
ErrToken == "Error retrieving authentication token from authorization URI"
ErrEntitlements == "Failed to retrieve entitlement token"
ErrPuuid == "Failed to retrieve puuid"
\* Errors not raised by the program itself: a rejected request (axios) and
\* a property read on undefined / an invalid URL (TypeError)
ErrAxios == "AxiosError"
ErrType == "TypeError"
NoError == "none"

AuthProviderErrors == { ErrCookie, ErrCredentials, ErrToken, ErrEntitlements, ErrPuuid }

\* The service issues fresh tokens: the access token and the entitlement
\* token it gives to one call's handshake differ from those of every other
\* handshake.  The subject identifier is the account's and never changes.
AccessTokenOf(c) == "access" \o ToString(c)
EntitlementsTokenOf(c) == "entitlements" \o ToString(c)
Puuid == "puuid"

\* Cookies of a bootstrap response, as character strings
CookieAsid(c) == << "a", "s", "i", "d", "=", ToString(c) >>
CookieAsidOld == << "a", "s", "i", "d", "x", "=", "0" >>
CookieTdid == << "t", "d", "i", "d", "=", "9" >>
CookiePrefix == << "a", "s", "i", "d" >>
NoCookie == << >>

\* String.prototype.startsWith
startsWith(s, p) == Len(s) >= Len(p) /\ SubSeq(s, 1, Len(p)) = p

\* Variant: the first cookie of the header is taken, whatever its name
findFirst(cookies) == IF cookies = << >> THEN NoCookie ELSE Head(cookies)

\* Array.prototype.find with the predicate of index.ts line 91: the first
\* cookie that starts with "asid", NoCookie (undefined) when there is none
RECURSIVE find(_)
find(cookies) ==
    IF cookies = << >> THEN NoCookie
    ELSE IF startsWith(Head(cookies), CookiePrefix) THEN Head(cookies)
    ELSE find(Tail(cookies))

\* res.headers["set-cookie"]?.find(...): None is a response without the header
SetCookieHeaders(c) ==
    { None,
      Some(<< >>),
      Some(<< CookieTdid >>),
      Some(<< CookieTdid, CookieAsid(c) >>),
      Some(<< CookieAsid(c), CookieAsidOld >>) }

sessionCookie(header) == IF header = None THEN NoCookie ELSE find(Get(header))

\* Bodies of the credential-submission response (authorizationResponse.data).
\* error: the error field (Undefined when absent); uri: None when the body has
\* no response.parameters.uri, else the fragment of the redirect URI as
\* URL.hash gives it: << >> for no fragment, else "#" followed by the
\* key/value pairs of the query string.
Param(k, v) == [key |-> k, value |-> v]
AuthorizationBodies(c) ==
    { [error |-> "auth_failure", uri |-> None],
      [error |-> Undefined, uri |-> Some(<< "#", Param("access_token", AccessTokenOf(c)),
                                                 Param("id_token", "id") >>)],
      [error |-> Undefined, uri |-> Some(<< >>)],
           [error |-> Undefined, uri |-> Some(<< "#", Param("id_token", "id") >>)],
           [error |-> Undefined, uri |-> Some(<< "#", Param("access_token", "") >>)],
           [error |-> Undefined, uri |-> None] }

\* String.prototype.substring(1) on URL.hash: drops the leading "#"
substring1(hash) == IF hash = << >> THEN << >> ELSE Tail(hash)

\* URLSearchParams.get: the value of the first pair with the key, Undefined
\* (null) when there is none
RECURSIVE searchParamsGet(_, _)
searchParamsGet(params, k) ==
    IF params = << >> THEN Undefined
    ELSE IF Head(params).key = k THEN Head(params).value
    ELSE searchParamsGet(Tail(params), k)

\* JavaScript truthiness of a string-valued field
Truthy(v) == v # Undefined /\ v # ""

\* Bodies of the entitlements and the userinfo responses
EntitlementsBodies(c) ==
    { [entitlements_token |-> t] : t \in { EntitlementsTokenOf(c), Undefined } }
UserinfoBodies == { [sub |-> p] : p \in { Puuid, Undefined } }

\* Bodies of the storefront response (RiotStorefrontResponse, flattened):
\* None is a body without SkinsPanelLayout or FeaturedBundle; one body has a
\* SkinsPanelLayout without SingleItemOffersRemainingDurationInSeconds.
RemainingSeconds == { 0, 3600 }
SingleItemOffers == << "skin1", "skin2", "skin3", "skin4" >>
StorefrontBodies ==
    { None }
    \cup { Some([SingleItemOffers |-> SingleItemOffers,
                 SingleItemOffersRemainingDurationInSeconds |-> s1,
                 BundleRemainingDurationInSeconds |-> s2,
                 DataAssetID |-> "asset", CurrencyID |-> "currency"])
           : s1 \in RemainingSeconds, s2 \in RemainingSeconds }
    \cup { Some([SingleItemOffers |-> SingleItemOffers,
                 BundleRemainingDurationInSeconds |-> 0,
                 DataAssetID |-> "asset", CurrencyID |-> "currency"]) }

\* The body has the number of seconds the offers remain
HasOffersSeconds(body) == "SingleItemOffersRemainingDurationInSeconds" \in DOMAIN body

\* Requests (RIOT_AUTHORIZATION_ENDPOINT, RIOT_ENTITLEMENTS_ENDPOINT,
\* userinfo, RIOT_STOREFRONT_ENDPOINT)
Request(m, u, ck, b, e) ==
    [method |-> m, url |-> u, cookie |-> ck, bearer |-> b, entitlements |-> e]
BootstrapPost == Request("POST", "authorization", NoCookie, Undefined, Undefined)
CredentialPut(ck) == Request("PUT", "authorization", ck, Undefined, Undefined)
EntitlementsPost(tok) == Request("POST", "entitlements", NoCookie, tok, Undefined)
\* Variant: the userinfo GET is sent without the Authorization header
UserinfoGetNoBearer(tok) == Request("GET", "userinfo", NoCookie, Undefined, Undefined)
UserinfoGet(tok) == Request("GET", "userinfo", NoCookie, tok, Undefined)
StorefrontGet(b) ==
    Request("GET", "storefront/" \o b.puuid, NoCookie, b.riotToken, b.entitlementsToken)

\* ------------------------------------------------------------------------
\* State
\* ------------------------------------------------------------------------
VARIABLES
    now,      \* the clock: the time value "new Date()" gives
    ticks,    \* number of times the clock was advanced between steps
    tz,       \* the time zone of the process
    bundle,   \* PasswordAuthProvider.bundle: None or Some(RiotAuthBundle)
    expiry,   \* PasswordAuthProvider.expiry: None (never assigned) or Some(t)
    kind,     \* per call: "getAuthBundle" or "getOffers" ("none": not made yet)
    pc,       \* per call: the await the call is suspended at, or its outcome
    frame,    \* per call: the local variables cookie, authorizationResponse.data,
              \* riotToken, entitlementsToken of the handshake and storefront
              \* of getOffers
    ret,      \* per call: the bundle getAuthBundle returned, None before
    err,      \* per call: the message of the error the call threw
    out,      \* per call: the result of getOffers, None before
    reqs,     \* per call: the HTTP requests the call has issued, in order
    hist      \* per call: what the call found on entry to getAuthBundle, and
              \* the cache at its storefront GET

vars == << now, ticks, tz, bundle, expiry, kind, pc, frame, ret, err, out, reqs, hist >>

NoFrame ==
    [cookie |-> NoCookie, authorizationData |-> None, riotToken |-> Undefined,
     entitlementsToken |-> Undefined, storefront |-> None]
NoHist ==
    [seen |-> None,        \* this.bundle on entry
     clock |-> "none",     \* the clock on entry, relative to the expiry of that
                           \* bundle: "before", "at" or "after" ("none": no bundle)
     ended |-> { },        \* the calls that had returned or thrown on entry
     atGet |-> None]       \* this.bundle when the call issued the storefront GET

Init ==
    /\ now = StartTime
    /\ ticks = 0
    /\ tz \in TimeZones
    /\ bundle = None
    /\ expiry = None
    /\ kind = [c \in Calls |-> "none"]
    /\ pc = [c \in Calls |-> "idle"]
    /\ frame = [c \in Calls |-> NoFrame]
    /\ ret = [c \in Calls |-> None]
    /\ err = [c \in Calls |-> NoError]
    /\ out = [c \in Calls |-> None]
    /\ reqs = [c \in Calls |-> << >>]
    /\ hist = [c \in Calls |-> NoHist]

\* ------------------------------------------------------------------------
\* PasswordAuthProvider
\* ------------------------------------------------------------------------
\* "this.expiry < new Date()": a comparison with undefined is false
DateBefore(e, t) == IF e = None THEN FALSE ELSE Get(e) < t

\* Variant: the comparison of the expiry check the other way round
CacheMissInverted(b, e, t) == b = None \/ ~DateBefore(e, t)

\* The condition of line 67: "!this.bundle || this.expiry < new Date()"
CacheMiss(b, e, t) == b = None \/ DateBefore(e, t)

\* Lines 72-73: "new Date()" moved forward by the validity window
NewExpiry(z, t) == setMinutes(z, t, getMinutes(z, t) + ValidityMinutes)

\* Variant: a new handshake updates the cached bundle object in place and
\* leaves its access token
NewBundleMerged(tok, ent, puuid, exp) ==
    [riotToken |-> IF bundle = None THEN tok ELSE Get(bundle).riotToken,
     entitlementsToken |-> ent, puuid |-> puuid, expiry |-> exp]

\* Line 75: the bundle object assigned to this.bundle
NewBundle(tok, ent, puuid, exp) ==
    [riotToken |-> tok, entitlementsToken |-> ent, puuid |-> puuid, expiry |-> exp]

\* Lines 113-117: the access token of the redirect URI of a body without
\* error field; Undefined (null) when the fragment has none
AccessToken(body) == searchParamsGet(substring1(Get(body.uri)), "access_token")

\* Variant: the error field of the credential response is not looked at
CredentialsNeverRejected(body) == FALSE

\* Line 108: the body of the credential response signals an error
CredentialsRejected(body) == Truthy(body.error)

\* Variants: the cache is dropped when the subject identifier is missing;
\* the cache is assigned before the subject identifier is looked at
CacheWriteClearing(old, b, sub) == IF Truthy(sub) THEN Some(b) ELSE None
CacheWriteEarly(old, b, sub) == Some(b)

\* Lines 146-148 and 75: this.bundle after the userinfo response; the
\* assignment is reached only when the subject identifier is there
CacheWrite(old, b, sub) == IF Truthy(sub) THEN Some(b) ELSE old

\* Where a call is once getAuthBundle has returned: a direct call is done;
\* getOffers is suspended at the await of line 236 with the bundle on its way.
PcOnReturn(k) == IF k = "getOffers" THEN "haveBundle" ELSE "done"

\* Variant: a cache hit returns the bundle with its validity window restarted
HitResultRenewed(b) == Some([Get(b) EXCEPT !.expiry = NewExpiry(tz, now)])

\* Line 78: what getAuthBundle returns when the cache check passes
HitResult(b) == b

\* Variant: getOffers catches what getAuthBundle throws and throws an error
\* of its own
ThrowWrapped(c, e) ==
    /\ pc' = [pc EXCEPT ![c] = "failed"]
    /\ err' = [err EXCEPT ![c] = IF kind[c] = "getOffers" THEN "StoreError" ELSE e]

\* A call throws: the error propagates to the caller of getAuthBundle or
\* getOffers (no handler in between)
Throw(c, e) ==
    /\ pc' = [pc EXCEPT ![c] = "failed"]
    /\ err' = [err EXCEPT ![c] = e]

\* What a call finds on entry to getAuthBundle
Entered(b, t) ==
    [seen |-> b,
     clock |-> IF b = None THEN "none"
               ELSE IF t < Get(b).expiry THEN "before"
               ELSE IF t = Get(b).expiry THEN "at"
               ELSE "after",
     ended |-> { d \in Calls : pc[d] \in { "done", "failed" } },
     atGet |-> None]

\* The clock advances between two steps of the program
Tick(d) ==
    /\ ticks < MaxTicks
    /\ now' = now + d
    /\ ticks' = ticks + 1
    /\ UNCHANGED << tz, bundle, expiry, kind, pc, frame, ret, err, out, reqs, hist >>

\* A call of getAuthBundle (k = "getAuthBundle") or of getOffers, which calls
\* getAuthBundle first: lines 66-68, 76-79 and 83-89.  On a cache miss the
\* bootstrap POST is issued and the call suspends; on a hit the cached bundle
\* is returned.
StartCall(c, k) ==
    /\ pc[c] = "idle"
    /\ IF c = 1 THEN TRUE ELSE pc[c - 1] # "idle"
    /\ kind' = [kind EXCEPT ![c] = k]
    /\ IF CacheMiss(bundle, expiry, now)
       THEN /\ pc' = [pc EXCEPT ![c] = "awaitBootstrap"]
            /\ reqs' = [reqs EXCEPT ![c] = << BootstrapPost >>]
            /\ ret' = ret
            /\ hist' = [hist EXCEPT ![c] = Entered(bundle, now)]
       ELSE /\ pc' = [pc EXCEPT ![c] = PcOnReturn(k)]
            /\ reqs' = reqs
            /\ ret' = [ret EXCEPT ![c] = HitResult(bundle)]
            /\ hist' = [hist EXCEPT ![c] = Entered(bundle, now)]
    /\ UNCHANGED << now, ticks, tz, bundle, expiry, frame, err, out >>

\* The bootstrap POST resolved: lines 90-106
BootstrapResponse(c, header) ==
    /\ pc[c] = "awaitBootstrap"
    /\ LET cookie == sessionCookie(header)
       IN  IF cookie = NoCookie
           THEN /\ Throw(c, ErrCookie)
                /\ UNCHANGED << frame, reqs >>
           ELSE /\ frame' = [frame EXCEPT ![c].cookie = cookie]
                /\ reqs' = [reqs EXCEPT ![c] = Append(@, CredentialPut(cookie))]
                /\ pc' = [pc EXCEPT ![c] = "awaitAuthorization"]
                /\ err' = err
    /\ UNCHANGED << now, ticks, tz, bundle, expiry, kind, ret, out, hist >>

\* The credential PUT resolved: lines 108-124, then lines 69 and 128-132
AuthorizationResponse(c, body) ==
    /\ pc[c] = "awaitAuthorization"
    /\ IF CredentialsRejected(body)
       THEN /\ Throw(c, ErrCredentials)
            /\ frame' = [frame EXCEPT ![c].authorizationData = Some(body)]
            /\ reqs' = reqs
       ELSE IF body.uri = None
       THEN /\ Throw(c, ErrType)
            /\ frame' = [frame EXCEPT ![c].authorizationData = Some(body)]
            /\ reqs' = reqs
       ELSE IF ~Truthy(AccessToken(body))
       THEN /\ Throw(c, ErrToken)
            /\ frame' = [frame EXCEPT ![c].authorizationData = Some(body)]
            /\ reqs' = reqs
       ELSE /\ frame' = [frame EXCEPT ![c].authorizationData = Some(body),
                                      ![c].riotToken = AccessToken(body)]
            /\ reqs' = [reqs EXCEPT ![c] = Append(@, EntitlementsPost(AccessToken(body)))]
            /\ pc' = [pc EXCEPT ![c] = "awaitEntitlements"]
            /\ err' = err
    /\ UNCHANGED << now, ticks, tz, bundle, expiry, kind, ret, out, hist >>

\* The entitlements POST resolved: lines 133-136, then lines 70 and 140-145
EntitlementsResponse(c, body) ==
    /\ pc[c] = "awaitEntitlements"
    /\ IF ~Truthy(body.entitlements_token)
       THEN /\ Throw(c, ErrEntitlements)
            /\ UNCHANGED << frame, reqs >>
       ELSE /\ frame' = [frame EXCEPT ![c].entitlementsToken = body.entitlements_token]
            /\ reqs' = [reqs EXCEPT ![c] = Append(@, UserinfoGet(frame[c].riotToken))]
            /\ pc' = [pc EXCEPT ![c] = "awaitUserinfo"]
            /\ err' = err
    /\ UNCHANGED << now, ticks, tz, bundle, expiry, kind, ret, out, hist >>

\* The userinfo GET resolved: lines 146-149, then lines 72-76
UserinfoResponse(c, body) ==
    /\ pc[c] = "awaitUserinfo"
    /\ LET b == NewBundle(frame[c].riotToken, frame[c].entitlementsToken,
                          body.sub, NewExpiry(tz, now))
       IN
       /\ bundle' = CacheWrite(bundle, b, body.sub)
       /\ IF ~Truthy(body.sub)
          THEN /\ Throw(c, ErrPuuid)
               /\ UNCHANGED << ret, reqs >>
          ELSE /\ ret' = [ret EXCEPT ![c] = Some(b)]
               /\ pc' = [pc EXCEPT ![c] = PcOnReturn(kind[c])]
               /\ reqs' = reqs
               /\ err' = err
    /\ UNCHANGED << now, ticks, tz, expiry, kind, frame, out, hist >>

\* A request of the handshake or the storefront GET is rejected (no
\* response, or a status outside 2xx): the await throws
Rejected(c) ==
    /\ pc[c] \in { "awaitBootstrap", "awaitAuthorization", "awaitEntitlements",
                   "awaitUserinfo", "awaitStorefront" }
    /\ Throw(c, ErrAxios)
    /\ UNCHANGED << now, ticks, tz, bundle, expiry, kind, frame, ret, out, reqs, hist >>

\* ------------------------------------------------------------------------
\* Storefront
\* ------------------------------------------------------------------------
\* Lines 241-248: a clock reading moved forward by a number of seconds
ExpiryAfter(z, t, s) == setSeconds(z, t, getSeconds(z, t) + s)

\* Lines 241-244 when the body has no number of seconds: getSeconds() plus
\* undefined is NaN, and setSeconds(NaN) makes the date an Invalid Date
InvalidDate == "Invalid Date"

\* Variant: the storefront GET is built from the provider's cached bundle
StorefrontBundleCached(c) == Get(bundle)

\* Line 236: the bundle getOffers passes to _getStorefrontRaw is its local
\* constant, the value getAuthBundle returned to it
StorefrontBundle(c) == Get(ret[c])

\* getOffers resumes with the bundle and issues the storefront GET: lines
\* 236-237 and 262-271
IssueStorefront(c) ==
    /\ pc[c] = "haveBundle"
    /\ reqs' = [reqs EXCEPT ![c] = Append(@, StorefrontGet(StorefrontBundle(c)))]
    /\ pc' = [pc EXCEPT ![c] = "awaitStorefront"]
    /\ hist' = [hist EXCEPT ![c].atGet = bundle]
    /\ UNCHANGED << now, ticks, tz, bundle, expiry, kind, frame, ret, err, out >>

\* Variant: getOffers drops the cached bundle when the storefront response
\* cannot be processed
AfterStorefrontInvalidating(old, body) == IF body = None THEN None ELSE old

\* Lines 237-259: getOffers assigns nothing of the provider, whatever the
\* storefront answers
AfterStorefront(old, body) == old

\* Lines 250-259: the object getOffers returns
OffersResult(z, t1, t2, body) ==
    [offers |-> [expiry |-> IF HasOffersSeconds(body)
                            THEN ExpiryAfter(z, t1,
                                     body.SingleItemOffersRemainingDurationInSeconds)
                            ELSE InvalidDate],
     bundle |-> [name |-> body.DataAssetID,
                 cover |-> body.CurrencyID,
                 expiry |-> ExpiryAfter(z, t2, body.BundleRemainingDurationInSeconds)]]

\* The storefront GET resolved: lines 239-259.  The clock is read twice
\* (lines 239 and 240); gap is the time that passes between the readings.
StorefrontResponse(c, body, gap) ==
    /\ pc[c] = "awaitStorefront"
    /\ now' = now + gap
    /\ frame' = [frame EXCEPT ![c].storefront = body]
    /\ bundle' = AfterStorefront(bundle, body)
    /\ IF body = None
       THEN /\ Throw(c, ErrType)
            /\ out' = out
       ELSE /\ out' = [out EXCEPT ![c] = Some(OffersResult(tz, now, now + gap, Get(body)))]
            /\ pc' = [pc EXCEPT ![c] = "done"]
            /\ err' = err
    /\ UNCHANGED << ticks, tz, expiry, kind, ret, reqs, hist >>

Next ==
    \/ \E d \in TickSteps : Tick(d)
    \/ \E c \in Calls, k \in { "getAuthBundle", "getOffers" } : StartCall(c, k)
    \/ \E c \in Calls : \E h \in SetCookieHeaders(c) : BootstrapResponse(c, h)
    \/ \E c \in Calls : \E b \in AuthorizationBodies(c) : AuthorizationResponse(c, b)
    \/ \E c \in Calls : \E b \in EntitlementsBodies(c) : EntitlementsResponse(c, b)
    \/ \E c \in Calls, b \in UserinfoBodies : UserinfoResponse(c, b)
    \/ \E c \in Calls : IssueStorefront(c)
    \/ \E c \in Calls, b \in StorefrontBodies, g \in ClockGaps : StorefrontResponse(c, b, g)
    \/ \E c \in Calls : Rejected(c)

Spec == Init /\ [][Next]_vars

\* The provider used on its own: every call is a direct call of getAuthBundle
NextAuth ==
    \/ \E d \in TickSteps : Tick(d)
    \/ \E c \in Calls : StartCall(c, "getAuthBundle")
    \/ \E c \in Calls : \E h \in SetCookieHeaders(c) : BootstrapResponse(c, h)
    \/ \E c \in Calls : \E b \in AuthorizationBodies(c) : AuthorizationResponse(c, b)
    \/ \E c \in Calls : \E b \in EntitlementsBodies(c) : EntitlementsResponse(c, b)
    \/ \E c \in Calls, b \in UserinfoBodies : UserinfoResponse(c, b)
    \/ \E c \in Calls : Rejected(c)

SpecAuth == Init /\ [][NextAuth]_vars

\* The store and the provider with calls so close to each other that the
\* clock moves only between the two readings of getOffers
NextStore ==
    \/ \E c \in Calls, k \in { "getAuthBundle", "getOffers" } : StartCall(c, k)
    \/ \E c \in Calls : \E h \in SetCookieHeaders(c) : BootstrapResponse(c, h)
    \/ \E c \in Calls : \E b \in AuthorizationBodies(c) : AuthorizationResponse(c, b)
    \/ \E c \in Calls : \E b \in EntitlementsBodies(c) : EntitlementsResponse(c, b)
    \/ \E c \in Calls, b \in UserinfoBodies : UserinfoResponse(c, b)
    \/ \E c \in Calls : IssueStorefront(c)
    \/ \E c \in Calls, b \in StorefrontBodies, g \in ClockGaps : StorefrontResponse(c, b, g)
    \/ \E c \in Calls : Rejected(c)

SpecStore == Init /\ [][NextStore]_vars

\* The same program in a process whose time zone has no transition
InitUTC == Init /\ tz.name = "UTC"
SpecUTC == InitUTC /\ [][Next]_vars

\* ------------------------------------------------------------------------
\* Vocabulary of the properties
\* ------------------------------------------------------------------------
Made(c) == kind[c] # "none"
HandshakeUrls == { "authorization", "entitlements", "userinfo" }

\* The handshake requests a call has issued, in order
HandshakeReqs(c) == SelectSeq(reqs[c], LAMBDA r : r.url \in HandshakeUrls)

\* The requests of a call with the given method and url
Issued(c, m, u) == { i \in DOMAIN reqs[c] : reqs[c][i].method = m /\ reqs[c][i].url = u }

\* The call has performed one full handshake: bootstrap POST, credential PUT,
\* entitlement POST and userinfo GET, once each and in this order
FullHandshake(c) ==
    /\ Len(HandshakeReqs(c)) = 4
    /\ HandshakeReqs(c)[1] = BootstrapPost
    /\ HandshakeReqs(c)[2] = CredentialPut(frame[c].cookie)
    /\ HandshakeReqs(c)[3] = EntitlementsPost(frame[c].riotToken)
    /\ HandshakeReqs(c)[4] = UserinfoGet(frame[c].riotToken)

\* All four fields of b are set and are the values of the handshake of call c
FromHandshakeOf(b, c) ==
    /\ FullHandshake(c)
    /\ b.riotToken = AccessTokenOf(c) /\ b.riotToken = frame[c].riotToken
    /\ b.entitlementsToken = EntitlementsTokenOf(c)
    /\ b.entitlementsToken = frame[c].entitlementsToken
    /\ b.puuid = Puuid
    /\ b.expiry > 0

\* getAuthBundle returns to call c in this step
Returns(c) == ret[c] = None /\ ret'[c] # None

\* ------------------------------------------------------------------------
\* Properties
\* ------------------------------------------------------------------------

\* C1: a call of getAuthBundle made when a bundle is cached and the clock is
\* before that bundle's expiry issues no handshake request and gets the
\* cached bundle, which one earlier call produced with exactly one handshake.
C1_CacheHitWithinValidity ==
    \A c \in Calls :
        Made(c) /\ hist[c].clock = "before" =>
            /\ HandshakeReqs(c) = << >>
            /\ ret[c] = hist[c].seen
            /\ \E d \in Calls \ { c } : ret[d] = hist[c].seen /\ FullHandshake(d)

C1_Witness ==
    \E c \in Calls :
        /\ kind[c] = "getAuthBundle" /\ pc[c] = "done"
        /\ hist[c].clock = "before" /\ ticks > 0
        /\ reqs[c] = << >> /\ ret[c] = bundle

\* C2: a call of getAuthBundle made when a bundle is cached and the clock is
\* past that bundle's expiry starts a new handshake with the bootstrap POST,
\* and once it has returned, the bundle it returned and cached shares no
\* token and no expiry with the bundle it found.
C2_ExpiredBundleIsReplaced ==
    \A c \in Calls :
        Made(c) /\ hist[c].clock = "after" =>
            /\ Len(reqs[c]) >= 1 /\ reqs[c][1] = BootstrapPost
            /\ ret[c] # None =>
                  /\ FullHandshake(c)
                  /\ Get(ret[c]).riotToken # Get(hist[c].seen).riotToken
                  /\ Get(ret[c]).entitlementsToken # Get(hist[c].seen).entitlementsToken
                  /\ Get(ret[c]).expiry # Get(hist[c].seen).expiry

\* C3: whenever getAuthBundle returns a bundle, the bundle's expiry is
\* strictly later than the clock at that moment.
C3_ReturnedBundleNotExpired ==
    [][\A c \in Calls : Returns(c) => Get(ret'[c]).expiry > now']_vars

\* C4: the bundle a successful handshake returns expires exactly 55 minutes
\* after the clock reading taken when the userinfo step completed.
C4_ExpiryIs55MinutesAfterIdentity ==
    [][\A c \in Calls :
          pc[c] = "awaitUserinfo" /\ Returns(c) =>
              Get(ret'[c]).expiry = now + ValidityMinutes * msPerMinute]_vars

\* C5: when the body of the credential response has an error field, the call
\* fails with the credentials error and has issued neither the entitlement
\* POST nor the userinfo GET; no other failure carries that reason.
C5_CredentialErrorIsDistinctAndStops ==
    \A c \in Calls :
        LET rejected == /\ frame[c].authorizationData # None
                        /\ Truthy(Get(frame[c].authorizationData).error)
        IN  /\ rejected =>
                /\ pc[c] = "failed" /\ err[c] = ErrCredentials
                /\ err[c] \in AuthProviderErrors
                /\ Issued(c, "POST", "entitlements") = { }
                /\ Issued(c, "GET", "userinfo") = { }
            /\ pc[c] = "failed" /\ ~rejected => err[c] # ErrCredentials

C5_Witness ==
    \E c \in Calls :
        /\ pc[c] = "failed" /\ err[c] = ErrCredentials
        /\ Get(frame[c].authorizationData).error = "auth_failure"
        /\ Len(reqs[c]) = 2

\* C6: a step in which a call fails leaves the cached bundle as it is, and a
\* call made when no bundle is cached starts with the bootstrap POST and
\* returns a bundle only after a full handshake of its own.
C6_FailureLeavesCacheAndNextCallHandshakes ==
    /\ [](\A c \in Calls :
            Made(c) /\ hist[c].seen = None =>
                /\ Len(reqs[c]) >= 1 /\ reqs[c][1] = BootstrapPost
                /\ ret[c] # None => FullHandshake(c))
    /\ [][\A c \in Calls :
            pc[c] # "failed" /\ pc'[c] = "failed" => bundle' = bundle]_vars

\* A call failed at the last step of its handshake, and a later call, made
\* after that failure with no bundle cached, handshook again and succeeded
C6_Witness ==
    \E c, d \in Calls :
        /\ pc[c] = "failed" /\ err[c] = ErrPuuid /\ Len(reqs[c]) = 4
        /\ c \in hist[d].ended /\ hist[d].seen = None
        /\ bundle # None /\ ret[d] = bundle /\ FullHandshake(d)

\* C7: the cached bundle is absent or has all four fields set to the values
\* of one successful handshake; the cache changes only in the step that ends
\* a successful handshake, to the bundle that handshake returns, and is
\* never cleared.
C7_CacheIsWholeBundleOfOneHandshake ==
    /\ [](bundle = None
          \/ \E c \in Calls : ret[c] = bundle /\ FromHandshakeOf(Get(bundle), c))
    /\ [][bundle' # bundle =>
            /\ bundle' # None
            /\ \E c \in Calls :
                  /\ pc[c] = "awaitUserinfo" /\ Returns(c)
                  /\ bundle' = ret'[c]]_vars

C7_Witness ==
    \E c, d \in Calls :
        /\ c # d /\ FullHandshake(c) /\ FullHandshake(d)
        /\ pc[c] = "failed" /\ err[c] = ErrPuuid
        /\ ret[d] = bundle /\ bundle # None

\* C8: of calls that passed the cache check because no bundle was cached,
\* each issues every handshake request at most once, each gets a bundle
\* whose fields are those of its own handshake, and the cached bundle is the
\* bundle one of them returned.
Racers == { c \in Calls : Made(c) /\ hist[c].seen = None }

C8_RacingCallsDoNotMixBundles ==
    \A c \in Racers :
        /\ Cardinality(Issued(c, "POST", "authorization")) <= 1
        /\ Cardinality(Issued(c, "PUT", "authorization")) <= 1
        /\ Cardinality(Issued(c, "POST", "entitlements")) <= 1
        /\ Cardinality(Issued(c, "GET", "userinfo")) <= 1
        /\ ret[c] # None => FromHandshakeOf(Get(ret[c]), c)
        /\ bundle # None =>
              \E d \in Racers : bundle = ret[d] /\ FromHandshakeOf(Get(bundle), d)

\* Two calls raced past the empty cache, both handshakes succeeded, and the
\* cache holds the bundle of one of them
C8_Witness ==
    \E c, d \in Calls :
        /\ c # d /\ { c, d } \subseteq Racers
        /\ hist[c].ended = { } /\ hist[d].ended = { }
        /\ ret[c] # None /\ ret[d] # None /\ ret[c] # ret[d]
        /\ bundle = ret[c]

\* C9: for a storefront response that reports the remaining seconds of the
\* offers, the offers expiry getOffers returns is the clock reading T taken
\* after the response arrived plus those seconds.
C9_OffersExpiryIsRetrievalPlusSeconds ==
    [][\A c \in Calls :
          (pc[c] = "awaitStorefront" /\ out'[c] # None
             /\ HasOffersSeconds(Get(frame'[c].storefront)))
          => Get(out'[c]).offers.expiry =
                  now + Get(frame'[c].storefront).SingleItemOffersRemainingDurationInSeconds
                        * msPerSecond]_vars

\* C10: both expiries of a getOffers result are relative to one clock
\* reading: each minus its remaining seconds gives the same instant (for
\* a response that reports both numbers of seconds).
C10_BothExpiriesFromOneClockReading ==
    \A c \in Calls :
        out[c] # None /\ HasOffersSeconds(Get(frame[c].storefront)) =>
            Get(out[c]).offers.expiry
              - Get(frame[c].storefront).SingleItemOffersRemainingDurationInSeconds * msPerSecond
            = Get(out[c]).bundle.expiry
              - Get(frame[c].storefront).BundleRemainingDurationInSeconds * msPerSecond

\* The errors getAuthBundle can throw after n handshake requests: the error
\* of the provider for the response of the n-th request, or the error of the
\* HTTP client
HandshakeErrorsAt(n) ==
    CASE n = 1 -> { ErrCookie, ErrAxios }
      [] n = 2 -> { ErrCredentials, ErrToken, ErrType, ErrAxios }
      [] n = 3 -> { ErrEntitlements, ErrAxios }
      [] n = 4 -> { ErrPuuid, ErrAxios }
      [] OTHER -> { }

\* C11: a getOffers call whose getAuthBundle failed has failed with the very
\* error getAuthBundle threw at the step where the handshake stopped, has
\* issued no storefront GET and has no result.
C11_AuthFailurePropagatesAndNoStorefrontGet ==
    \A c \in Calls :
        kind[c] = "getOffers" /\ pc[c] = "failed" /\ ret[c] = None =>
            /\ err[c] \in HandshakeErrorsAt(Len(HandshakeReqs(c)))
            /\ \A i \in DOMAIN reqs[c] : reqs[c][i].url \in HandshakeUrls
            /\ out[c] = None

\* A getOffers call failed with the provider's error for missing credentials
\* acceptance, after the bootstrap POST and the credential PUT only
C11_Witness ==
    \E c \in Calls :
        /\ kind[c] = "getOffers" /\ pc[c] = "failed" /\ ret[c] = None
        /\ err[c] = ErrCredentials /\ err[c] \in AuthProviderErrors
        /\ reqs[c] = << BootstrapPost, CredentialPut(CookieAsid(c)) >>

\* C12: for a storefront response whose SingleItemOffers lists (at most 4)
\* identifiers, the result of getOffers has items, one entry per identifier
\* of the list and no more than 4.
C12_OneEntryPerOfferIdentifier ==
    \A c \in Calls :
        out[c] # None =>
            LET ids == Get(frame[c].storefront).SingleItemOffers
                offers == Get(out[c]).offers
            IN  /\ "items" \in DOMAIN offers
                /\ Len(offers.items) = Len(ids)
                /\ Len(offers.items) <= 4

\* The storefront GET of call c was answered with a body that lacks the offer
\* panel or the remaining seconds of the offers
GotMalformedStorefront(c) ==
    /\ kind[c] = "getOffers" /\ pc[c] \in { "done", "failed" }
    /\ \E i \in DOMAIN reqs[c] : reqs[c][i].url \notin HandshakeUrls
    /\ err[c] # ErrAxios
    /\ IF frame[c].storefront = None THEN TRUE
       ELSE ~HasOffersSeconds(Get(frame[c].storefront))

\* C13: when the storefront response lacks the offer panel or its remaining
\* seconds, getOffers fails, with an error that is not one of the errors of
\* the authentication.
C13_MalformedStorefrontFailsDistinctly ==
    \A c \in Calls :
        GotMalformedStorefront(c) =>
            /\ pc[c] = "failed" /\ out[c] = None
            /\ err[c] # NoError /\ err[c] \notin AuthProviderErrors

\* C14: within one call each of the four handshake requests is issued at most
\* once; a call that has failed issues no further request; a credential PUT
\* is sent only with a cookie whose name starts with asid, and a call that
\* found no such cookie has failed with the cookie error having issued the
\* bootstrap POST alone.
C14_EachStepOnceAndNothingAfterFailure ==
    /\ [](\A c \in Calls :
            /\ Cardinality(Issued(c, "POST", "authorization")) <= 1
            /\ Cardinality(Issued(c, "PUT", "authorization")) <= 1
            /\ Cardinality(Issued(c, "POST", "entitlements")) <= 1
            /\ Cardinality(Issued(c, "GET", "userinfo")) <= 1
            /\ \A i \in Issued(c, "PUT", "authorization") :
                   startsWith(reqs[c][i].cookie, CookiePrefix)
            /\ err[c] = ErrCookie =>
                   /\ pc[c] = "failed" /\ err[c] \in AuthProviderErrors
                   /\ reqs[c] = << BootstrapPost >>)
    /\ [][\A c \in Calls : pc[c] = "failed" => reqs'[c] = reqs[c]]_vars

\* One call failed for want of the session cookie with the bootstrap POST as
\* its only request, while another call went through all four steps
C14_Witness ==
    \E c, d \in Calls :
        /\ pc[c] = "failed" /\ err[c] = ErrCookie /\ reqs[c] = << BootstrapPost >>
        /\ Len(HandshakeReqs(d)) = 4 /\ pc[d] = "done"

\* The handshake of call c in full: the four requests in their order, the PUT
\* with the session cookie the service set for c, the entitlement POST and
\* the userinfo GET with the access token the service issued to c
HandshakeOf(c) ==
    << BootstrapPost, CredentialPut(CookieAsid(c)),
       EntitlementsPost(AccessTokenOf(c)), UserinfoGet(AccessTokenOf(c)) >>

\* C15: the handshake requests of a call are an initial part of bootstrap
\* POST, credential PUT, entitlement POST, userinfo GET; the PUT is there
\* only once the bootstrap response gave the call its asid cookie, which it
\* carries; the entitlement POST and the userinfo GET are there only once
\* the access token was extracted from the credential response, and both
\* carry that token as bearer.
C15_HandshakeOrderAndCredentials ==
    \A c \in Calls :
        LET h == HandshakeReqs(c)
        IN  /\ Len(h) <= 4 /\ h = SubSeq(HandshakeOf(c), 1, Len(h))
            /\ Len(h) >= 2 =>
                  /\ startsWith(frame[c].cookie, CookiePrefix)
                  /\ h[2].cookie = frame[c].cookie
            /\ Len(h) >= 3 =>
                  /\ frame[c].authorizationData # None
                  /\ frame[c].riotToken = AccessToken(Get(frame[c].authorizationData))
                  /\ \A i \in 3..Len(h) : h[i].bearer = frame[c].riotToken

\* Two calls whose handshakes overlapped both sent all four requests, each
\* with its own access token, and one of them has cached its bundle
C15_Witness ==
    \E c, d \in Calls :
        /\ c # d /\ hist[c].seen = None /\ hist[d].seen = None
        /\ HandshakeReqs(c) = HandshakeOf(c) /\ HandshakeReqs(d) = HandshakeOf(d)
        /\ HandshakeReqs(c)[4].bearer # HandshakeReqs(d)[4].bearer
        /\ bundle = ret[c] /\ bundle # None /\ pc[d] = "awaitUserinfo"

\* The credential response of call c has no error field and no access token
\* can be extracted from it: no redirect URI, no fragment, or a fragment
\* without (or with an empty) access_token
NoTokenToExtract(c) ==
    /\ frame[c].authorizationData # None
    /\ LET body == Get(frame[c].authorizationData)
       IN  /\ ~Truthy(body.error)
           /\ IF body.uri = None THEN TRUE ELSE ~Truthy(AccessToken(body))

\* C16: a call whose credential response has no error field and yields no
\* access token has failed with the token error of the provider and has
\* issued neither the entitlement POST nor the userinfo GET.
C16_NoTokenFailsWithTokenError ==
    \A c \in Calls :
        NoTokenToExtract(c) =>
            /\ pc[c] = "failed" /\ err[c] = ErrToken
            /\ err[c] \in AuthProviderErrors
            /\ Issued(c, "POST", "entitlements") = { }
            /\ Issued(c, "GET", "userinfo") = { }

\* The storefront GETs of a call
StorefrontGets(c) == { i \in DOMAIN reqs[c] : reqs[c][i].url \notin HandshakeUrls }

\* C17: a storefront GET is issued by a getOffers call only, once, after
\* getAuthBundle returned a bundle to that call; its address is the subject
\* identifier, its entitlement header and its bearer are the tokens of that
\* very bundle, and the three values come from one handshake.
C17_StorefrontGetUsesTheReturnedBundle ==
    \A c \in Calls :
        /\ Cardinality(StorefrontGets(c)) <= 1
        /\ \A i \in StorefrontGets(c) :
              /\ kind[c] = "getOffers" /\ ret[c] # None
              /\ reqs[c][i].method = "GET"
              /\ reqs[c][i].url = "storefront/" \o Get(ret[c]).puuid
              /\ reqs[c][i].bearer = Get(ret[c]).riotToken
              /\ reqs[c][i].entitlements = Get(ret[c]).entitlementsToken
              /\ \E d \in Calls : ret[d] = ret[c] /\ FromHandshakeOf(Get(ret[c]), d)

\* A getOffers call issued its storefront GET after another call had
\* replaced the cached bundle, and got its result
C17_Witness ==
    \E c \in Calls :
        /\ kind[c] = "getOffers" /\ StorefrontGets(c) # { }
        /\ hist[c].atGet # None /\ hist[c].atGet # ret[c]
        /\ out[c] # None

\* The call passed the cache check: it found a bundle and made no handshake
CacheHit(c) == Made(c) /\ hist[c].seen # None /\ HandshakeReqs(c) = << >>

\* C18: a call that hits the cache gets the bundle it found, with the four
\* field values of the handshake of the call that created it, expiry
\* included; the step of a hit leaves the cached bundle as it is.
C18_CacheHitReturnsStoredBundleUnchanged ==
    /\ [](\A c \in Calls :
            CacheHit(c) =>
                /\ ret[c] = hist[c].seen
                /\ \E d \in Calls \ { c } :
                      /\ ret[d] = ret[c] /\ FromHandshakeOf(Get(ret[c]), d)
                      /\ Get(ret[c]).expiry = Get(ret[d]).expiry)
    /\ [][\A c \in Calls :
            pc[c] = "idle" /\ ret'[c] # None =>
                bundle' = bundle /\ ret'[c] = bundle]_vars

\* A call hit the cache some time after the call that created the bundle had
\* returned, and got that call's bundle
C18_Witness ==
    \E c \in Calls : \E d \in hist[c].ended :
        /\ CacheHit(c) /\ pc[c] = "done" /\ now > StartTime
        /\ ret[d] = ret[c] /\ ret[c] = bundle /\ FullHandshake(d)

\* The getOffers call got its bundle and then failed: the storefront GET was
\* rejected or its response could not be processed
StorefrontFailed(c) == kind[c] = "getOffers" /\ pc[c] = "failed" /\ ret[c] # None

\* C19: the steps getOffers takes after getAuthBundle has returned leave the
\* cached bundle as it is; so a getOffers call made after another one failed
\* at the storefront finds a bundle cached, and when the clock is before
\* that bundle's expiry it issues no handshake request and uses that bundle.
C19_StorefrontFailureKeepsTheCache ==
    /\ [][\A c \in Calls :
            pc[c] \in { "haveBundle", "awaitStorefront" } /\ pc'[c] # pc[c] =>
                bundle' = bundle]_vars
    /\ [](\A d \in Calls : \A c \in hist[d].ended :
            StorefrontFailed(c) /\ kind[d] = "getOffers" =>
                /\ hist[d].seen # None
                /\ hist[d].clock = "before" =>
                      HandshakeReqs(d) = << >> /\ ret[d] = hist[d].seen)

\* A getOffers call failed on a storefront response without offer panel; the
\* next getOffers call, made before the expiry, went to the storefront with
\* the cached bundle and no handshake
C19_Witness ==
    \E d \in Calls : \E c \in hist[d].ended :
        /\ StorefrontFailed(c) /\ err[c] = ErrType
        /\ kind[d] = "getOffers" /\ hist[d].clock = "before"
        /\ Len(reqs[d]) = 1 /\ StorefrontGets(d) = { 1 }
        /\ ret[d] = ret[c]

====
